---------------------------- MODULE Spec2Model ----------------------------
(***************************************************************************)
(* Model of the OCR ensemble coordinator of raspverry/ai_ocr               *)
(* (src/src/ocr/ensemble.py, class OCREngine) with the text post-processor *)
(* it calls (src/src/ocr/postprocessor.py) and a Redis-like cache.         *)
(*                                                                         *)
(* Python dictionaries are functions whose DOMAIN is the set of keys, so   *)
(* that "'error' in result" is "error" \in DOMAIN result.  Texts are       *)
(* sequences of characters.  Engine confidences are integers in percent    *)
(* (0.85 is 85), engine weights are integers in tenths (0.5 is 5); a       *)
(* computed confidence is an exact fraction [n, d] in lowest terms, in     *)
(* percent.  Optional libraries of the post-processor (jaconv, fugashi,    *)
(* MeCab) are taken as not installed, the branch the code guards.          *)
(***************************************************************************)
EXTENDS Integers, Sequences, FiniteSets, TLC

VARIABLES
    weights,        \* self.weights: engine name -> weight; an engine may have no entry
    cache_enabled,  \* self.cache_enabled
    cache,          \* the Redis store: key -> [data, expires]
    cache_up,       \* whether the Redis server answers (its commands raise when not)
    now,            \* the clock of the store, in ticks
    pc,             \* position of the one recognize_text call: idle, running, done, raised
    req,            \* its arguments [image, lang, use_cache]
    special_items,  \* the local special_items of recognize_text
    started,        \* engines whose recognize has been called in this call
    outcomes,       \* what each engine's recognize did (returned a result or raised)
    tasks,          \* value of each finished _run_single_engine task
    completed,      \* history: the engines in the order their tasks finished
    ensemble_result,\* the local ensemble_result of recognize_text
    ret,            \* the dictionary recognize_text returned
    wpc,            \* position of process_document_async: idle, recognizing, returned
    doc,            \* its file: [kind, pages]
    options,        \* its options: [language, use_cache, check_orientation]
    language,       \* its local language
    page_results,   \* the pages of the file still to be processed
    doc_info,       \* its local doc_info, the value of process_document
    doc_result,     \* its local result, the dictionary it returns
    stages,         \* history: the stages run so far, [page, stage, lang]
    geometry_in,    \* the argument of a call of a function of orientation.py
    geometry_out,   \* the value that call returned
    fields,         \* FieldConfig.fields, the list of field dictionaries
    config_file,    \* the list in the file FieldConfig.config_file
    field_ret       \* what the last call of a FieldConfig method ended with

\* the state of process_document_async (src/src/worker/tasks.py)
worker_vars == <<wpc, doc, options, language, page_results, doc_info, doc_result, stages>>

\* the state of a call into src/src/document/orientation.py
geometry_vars == <<geometry_in, geometry_out>>

\* the state of a FieldConfig (src/src/extraction/field_config.py)
config_vars == <<fields, config_file, field_ret>>

vars == <<weights, cache_enabled, cache, cache_up, now, pc, req, special_items,
          started, outcomes, tasks, completed, ensemble_result, ret,
          worker_vars, geometry_vars, config_vars>>

-----------------------------------------------------------------------------
(* Bounds and configuration *)

MaxTime == 2

cache_ttl == 1

confidence_threshold == 85

None == "None"

default_language == "jpn"

\* self.engines in configuration (dictionary insertion) order
Engines == <<"engine1", "engine2", "engine3">>

EngineNames == {Engines[i] : i \in DOMAIN Engines}

\* the weights of the test fixture, in tenths
FixtureWeights == [engine1 |-> 3, engine2 |-> 5, engine3 |-> 2]

WeightValues == {0, 2, 5}

\* every assignment of non-negative weights, an engine without entry included
WeightConfigs == UNION {[S -> WeightValues] : S \in SUBSET EngineNames}

\* a PIL image: what it shows (id), its mode ("RGB": three channels, "L": one
\* channel), the marks on it that SpecialItemDetector finds, and whether it
\* is the binarized output of Preprocessor.process_image
Image(id, mode, marks, binarized) ==
    [id |-> id, mode |-> mode, marks |-> marks, binarized |-> binarized]

NoImage == Image(None, None, None, FALSE)

Images == {Image("img1", "RGB", "none", FALSE)}

LangHints == {None, "kor"}

EmptyDict == <<>>

-----------------------------------------------------------------------------
(* Helpers for Python's built-ins *)

RECURSIVE SumSeq(_)
SumSeq(s) == IF s = <<>> THEN 0 ELSE Head(s) + SumSeq(Tail(s))

RECURSIVE GCD(_, _)
GCD(a, b) == IF b = 0 THEN a ELSE GCD(b, a % b)

\* the float n / d, kept exact
Frac(n, d) == LET g == GCD(n, d) IN [n |-> n \div g, d |-> d \div g]

Zero == [n |-> 0, d |-> 1]

\* str.strip() is empty
IsBlank(t) == \A i \in DOMAIN t : t[i] = " "

\* lang or config.get('ocr.default_language', 'jpn')
LangOrDefault(lang) == IF lang = None THEN default_language ELSE lang

\* dict.get(key, default)
Get(d, k, default) == IF k \in DOMAIN d THEN d[k] ELSE default

\* a copy of d without key k
DelKey(d, k) == [j \in DOMAIN d \ {k} |-> d[j]]

\* a copy of d with d[k] = v
SetKey(d, k, v) == [j \in DOMAIN d \cup {k} |-> IF j = k THEN v ELSE d[j]]

\* an exception object, and isinstance(v, Exception)
Exception(kind) == [exception |-> kind]

IsException(v) == "exception" \in DOMAIN v

-----------------------------------------------------------------------------
(* PostProcessor (src/src/ocr/postprocessor.py) *)

\* re.sub(r'\s+', ' ', text)
RECURSIVE CollapseWhitespace(_)
CollapseWhitespace(t) ==
    IF Len(t) < 2 THEN t
    ELSE IF t[1] = " " /\ t[2] = " " THEN CollapseWhitespace(Tail(t))
    ELSE <<t[1]>> \o CollapseWhitespace(Tail(t))

\* re.sub(r'^\s+|\s+$', '', text)
RECURSIVE StripEnds(_)
StripEnds(t) ==
    IF t = <<>> THEN t
    ELSE IF Head(t) = " " THEN StripEnds(Tail(t))
    ELSE IF t[Len(t)] = " " THEN StripEnds(SubSeq(t, 1, Len(t) - 1))
    ELSE t

\* _normalize_common: NFKC leaves the model's characters alone; the
\* linebreak and email patterns match nothing without newlines and '@'
NormalizeCommon(t) == IF t = <<>> THEN <<>> ELSE StripEnds(CollapseWhitespace(t))

\* the Hangul syllables (U+AC00 to U+D7A3) of the model's alphabet, written
\* "ga" for U+AC00 and "na" for U+B098, each one character of a text, and the
\* particles of _process_korean among them
Hangul == {"ga", "na"}

Particles == {"ga"}

\* the number of whitespace characters t starts with
RECURSIVE LeadingBlanks(_)
LeadingBlanks(t) ==
    IF t = <<>> \/ Head(t) # " " THEN 0 ELSE 1 + LeadingBlanks(Tail(t))

\* re.sub(r'([U+AC00-U+D7A3])\s+(particle)', r'\1\2', text): the matches are
\* found from left to right and do not overlap, so the particle of one match
\* is never the syllable of the next
RECURSIVE JoinParticles(_)
JoinParticles(t) ==
    IF t = <<>> THEN t
    ELSE LET blanks == LeadingBlanks(Tail(t))
             after == SubSeq(t, blanks + 2, Len(t))
         IN  IF /\ Head(t) \in Hangul
                /\ blanks > 0
                /\ after # <<>>
                /\ Head(after) \in Particles
             THEN <<Head(t), Head(after)>> \o JoinParticles(Tail(after))
             ELSE <<Head(t)>> \o JoinParticles(Tail(t))

\* str.upper() of one character
Upper(c) == IF c = "a" THEN "A" ELSE IF c = "b" THEN "B" ELSE c

\* _process_english: without '.', '!' and '?' the text is one sentence, whose
\* first character is made upper case; no business term is in the alphabet
ProcessEnglish(t) == IF t = <<>> THEN t ELSE <<Upper(Head(t))>> \o Tail(t)

\* PostProcessor.process: the common normalisation, then the processing of
\* the result's language ('eng' when the result names none).  The texts are
\* made of letters, blanks and Hangul syllables: the full-width digit, the
\* line-break and the business patterns match none of them, and no
\* tokenizer is installed for jpn
Process(ocr_result) ==
    IF "text" \notin DOMAIN ocr_result \/ ocr_result["text"] = <<>>
    THEN ocr_result
    ELSE LET lang == Get(ocr_result, "language", "eng")
             text == NormalizeCommon(ocr_result["text"])
         IN  SetKey(ocr_result, "text",
                    IF lang = "kor" THEN JoinParticles(text)
                    ELSE IF lang = "eng" THEN ProcessEnglish(text)
                    ELSE text)

-----------------------------------------------------------------------------
(* OCREngine._run_single_engine and _run_ocr_engines *)

\* what engine.recognize can do: raise, return a result dictionary, or hang
Raises == [raises |-> TRUE]

Returns(text, lang, confidence) ==
    [raises |-> FALSE,
     result |-> [text |-> text, language |-> lang, confidence |-> confidence]]

\* the await of engine.recognize never ends
Hangs == [raises |-> FALSE, hangs |-> TRUE]

\* _run_single_engine: the value of the task wrapping one engine
RunSingleEngine(outcome, lang) ==
    IF outcome.raises
    THEN [text |-> <<>>, language |-> LangOrDefault(lang), confidence |-> 0,
          error |-> "exception"]
    ELSE outcome.result

\* a gather that ends with the first failed task
JoinedOnFirstFailure(t) ==
    \/ \A e \in EngineNames : e \in DOMAIN t
    \/ \E e \in DOMAIN t : "error" \in DOMAIN t[e]

\* await asyncio.gather(*tasks, return_exceptions=True) returns once every
\* task has finished
Joined(t) == \A e \in EngineNames : e \in DOMAIN t

\* the result mapping of _run_ocr_engines: engine name -> result in
\* configuration order, exceptions skipped; a sequence of [name, result]
RECURSIVE MapResultsFrom(_, _)
MapResultsFrom(t, i) ==
    IF i > Len(Engines) THEN <<>>
    ELSE (IF Engines[i] \in DOMAIN t /\ ~IsException(t[Engines[i]])
          THEN <<[name |-> Engines[i], result |-> t[Engines[i]]]>>
          ELSE <<>>) \o MapResultsFrom(t, i + 1)

\* a mapping that takes the results in the order the tasks finished
MapResultsAsCompleted(t) ==
    [i \in DOMAIN completed |-> [name |-> completed[i], result |-> t[completed[i]]]]

MapResults(t) == MapResultsFrom(t, 1)

-----------------------------------------------------------------------------
(* OCREngine._ensemble_results *)

\* 'language' in result and result['language']
HasLanguage(p) == "language" \in DOMAIN p.result /\ p.result["language"] # ""

\* not ('text' not in result or not result['text'].strip())
HasText(p) == "text" \in DOMAIN p.result /\ ~IsBlank(p.result["text"])

\* max(language_counts.items(), key=lambda x: x[1])[0]: the dictionary keeps
\* the languages in first-seen order and max returns the first maximal item
FirstDetected(langs) == langs[1]

MostFrequent(langs) ==
    LET Count(l) == Cardinality({i \in DOMAIN langs : langs[i] = l})
        i == CHOOSE i \in DOMAIN langs :
                 /\ \A j \in DOMAIN langs : Count(langs[j]) <= Count(langs[i])
                 /\ \A j \in 1..(i - 1) : Count(langs[j]) < Count(langs[i])
    IN  langs[i]

FinalLanguage(engine_results, lang) ==
    LET detected == SelectSeq(engine_results, HasLanguage)
        detected_languages == [i \in DOMAIN detected |-> detected[i].result["language"]]
    IN  IF detected_languages # <<>>
        THEN MostFrequent(detected_languages)
        ELSE LangOrDefault(lang)

\* confidence >= self.confidence_threshold
ClearsThreshold(confidence) == confidence >= confidence_threshold

WeightedScoreWithoutWeight(confidence, engine_weight) == confidence

\* weighted_score = confidence * engine_weight
WeightedScore(confidence, engine_weight) == confidence * engine_weight

\* the list weighted_texts of (text, weighted_score)
WeightedTexts(engine_results, w) ==
    LET Passes(p) == HasText(p) /\ ClearsThreshold(Get(p.result, "confidence", 0))
        kept == SelectSeq(engine_results, Passes)
    IN  [i \in DOMAIN kept |->
            [text |-> kept[i].result["text"],
             score |-> WeightedScore(Get(kept[i].result, "confidence", 0),
                                     Get(w, kept[i].name, 0))]]

\* the list all_texts of (text, len(text))
AllTexts(engine_results) ==
    LET kept == SelectSeq(engine_results, HasText)
    IN  [i \in DOMAIN kept |->
            [text |-> kept[i].result["text"], length |-> Len(kept[i].result["text"])]]

\* a sort that puts the last of the longest texts first
LongestTextLast(all_texts) ==
    LET i == CHOOSE i \in DOMAIN all_texts :
                 /\ \A j \in DOMAIN all_texts : all_texts[j].length <= all_texts[i].length
                 /\ \A j \in DOMAIN all_texts : j > i => all_texts[j].length < all_texts[i].length
    IN  all_texts[i].text

\* all_texts.sort(key=lambda x: x[1], reverse=True); all_texts[0][0]: Python's
\* sort is stable, also when reversed, so the first element afterwards is the
\* first one whose length is maximal
LongestText(all_texts) ==
    LET i == CHOOSE i \in DOMAIN all_texts :
                 /\ \A j \in DOMAIN all_texts : all_texts[j].length <= all_texts[i].length
                 /\ \A j \in 1..(i - 1) : all_texts[j].length < all_texts[i].length
    IN  all_texts[i].text

\* weighted_texts.sort(key=lambda x: x[1], reverse=True); weighted_texts[0][0]:
\* the first element whose score is maximal
BestScoredText(weighted_texts) ==
    LET i == CHOOSE i \in DOMAIN weighted_texts :
                 /\ \A j \in DOMAIN weighted_texts :
                       weighted_texts[j].score <= weighted_texts[i].score
                 /\ \A j \in 1..(i - 1) :
                       weighted_texts[j].score < weighted_texts[i].score
    IN  weighted_texts[i].text

\* sum(confidences) / len(confidences) over engine_results.values()
MeanConfidence(engine_results) ==
    LET confidences == [i \in DOMAIN engine_results |->
                            Get(engine_results[i].result, "confidence", 0)]
    IN  IF confidences # <<>>
        THEN Frac(SumSeq(confidences), Len(confidences))
        ELSE Zero

UnweightedMeanConfidence(engine_results, w) == MeanConfidence(engine_results)

\* the weighted mean over the results that hold a confidence
WeightedMeanConfidence(engine_results, w) ==
    LET HasConfidence(p) == "confidence" \in DOMAIN p.result
        kept == SelectSeq(engine_results, HasConfidence)
        conf == [i \in DOMAIN kept |-> kept[i].result["confidence"]]
        weight == [i \in DOMAIN kept |-> Get(w, kept[i].name, 0)]
        total_conf_weight == SumSeq(weight)
    IN  IF kept # <<>>
        THEN IF total_conf_weight > 0
             THEN Frac(SumSeq([i \in DOMAIN kept |-> conf[i] * weight[i]]),
                       total_conf_weight)
             ELSE Frac(SumSeq(conf), Len(kept))
        ELSE Zero

EnsembleResults(engine_results, lang, w) ==
    IF engine_results = <<>>
    THEN [text |-> <<>>, language |-> LangOrDefault(lang), confidence |-> Zero,
          error |-> "no OCR result"]
    ELSE
    LET final_language == FinalLanguage(engine_results, lang)
        weighted_texts == WeightedTexts(engine_results, w)
        total_weight == SumSeq([i \in DOMAIN weighted_texts |-> weighted_texts[i].score])
        all_texts == AllTexts(engine_results)
        chosen ==
            IF weighted_texts = <<>>
            THEN IF all_texts # <<>>
                 THEN [text |-> LongestText(all_texts),
                       confidence |-> MeanConfidence(engine_results)]
                 ELSE [text |-> <<>>, confidence |-> Zero]
            ELSE IF total_weight > 0
                 THEN [text |-> BestScoredText(weighted_texts),
                       confidence |-> WeightedMeanConfidence(engine_results, w)]
                 ELSE [text |-> <<>>, confidence |-> Zero]
    IN  [text |-> chosen.text, language |-> final_language,
         confidence |-> chosen.confidence, engine_results |-> engine_results]

-----------------------------------------------------------------------------
(* The cache: _calculate_image_hash, _check_cache, _save_to_cache *)

\* hashlib.md5 of the JPEG bytes: one digest per image, no collision
CalculateImageHash(image) == <<"md5", image>>

\* f"ocr:{image_hash}:{lang_suffix}" with lang_suffix = lang or 'auto'
CacheKey(image, lang) ==
    <<"ocr", CalculateImageHash(image), IF lang = None THEN "auto" ELSE lang>>

\* json.dumps of the dictionary that is cached: a numpy.bool_ among the
\* values makes it raise TypeError; everything else in the dictionary is a
\* str, a number, a bool, a list or a dict with string keys
JsonSerializable(d) ==
    \/ "special_items" \notin DOMAIN d
    \/ \A i \in DOMAIN d["special_items"].stamps :
           d["special_items"].stamps[i].is_red.type = "bool"

JsonDumps(d) == IF JsonSerializable(d) THEN [json |-> d] ELSE Exception("TypeError")

\* json.loads gives back the dictionary that was dumped
JsonLoads(s) == s.json

\* redis GET: the data of a key that is set and not expired, or nothing; it
\* raises when the server does not answer
NoData == <<>>

RedisGet(store, key, up) ==
    IF ~up THEN Exception("ConnectionError")
    ELSE IF key \in DOMAIN store THEN store[key].data ELSE NoData

\* redis SETEX on a server that answers
RedisSetex(store, key, ttl, data, time) ==
    [k \in DOMAIN store \cup {key} |->
        IF k = key THEN [data |-> data, expires |-> time + ttl] ELSE store[k]]

CheckCacheAlwaysMiss(store, enabled, image, lang, up) == EmptyDict

\* _check_cache without its try/except
CheckCacheUnguarded(store, enabled, image, lang, up) ==
    IF ~enabled THEN EmptyDict
    ELSE LET cached_data == RedisGet(store, CacheKey(image, lang), up)
         IN  IF IsException(cached_data) THEN cached_data
             ELSE IF cached_data = NoData THEN EmptyDict ELSE JsonLoads(cached_data)

\* _check_cache; the empty dictionary stands for None (both are false)
CheckCache(store, enabled, image, lang, up) ==
    IF ~enabled THEN EmptyDict
    ELSE LET cached_data == RedisGet(store, CacheKey(image, lang), up)
         IN  IF IsException(cached_data) THEN EmptyDict
             ELSE IF cached_data = NoData THEN EmptyDict ELSE JsonLoads(cached_data)

\* the dictionary _save_to_cache serialises
CacheResult(result) ==
    IF "engine_results" \in DOMAIN result THEN DelKey(result, "engine_results") ELSE result

\* _save_to_cache: the store afterwards; an exception of json.dumps or of
\* setex is logged and the store is left as it was
SaveToCache(store, enabled, image, lang, result, time, up) ==
    IF ~enabled THEN store
    ELSE LET data == JsonDumps(CacheResult(result))
         IN  IF IsException(data) \/ ~up THEN store
             ELSE RedisSetex(store, CacheKey(image, lang), cache_ttl, data, time)

-----------------------------------------------------------------------------
(* SpecialItemDetector (src/src/ocr/special_handlers.py) *)

\* a Python bool, and the numpy.bool_ that a comparison of numpy numbers gives
PyBool(b) == [type |-> "bool", value |-> b]

NumpyBool(b) == [type |-> "numpy.bool_", value |-> b]

\* the dictionary process_image returns for the stamps it found
SpecialItems(stamps) ==
    [has_special_items |-> stamps # <<>>, stamps |-> stamps,
     handwriting_regions |-> <<>>, strikethrough_regions |-> <<>>]

\* _detect_stamps: a stamp found by HoughCircles carries
\* 'is_red': _check_red_ratio(roi), the numpy.bool_ of red_ratio > threshold;
\* a stamp found as a red contour carries 'is_red': True
DetectStamps(image) ==
    IF image.marks = "round stamp"
    THEN <<[type |-> "stamp", radius |-> 30, is_red |-> NumpyBool(TRUE)]>>
    ELSE IF image.marks = "square stamp"
    THEN <<[type |-> "stamp", radius |-> 30, is_red |-> PyBool(TRUE)]>>
    ELSE <<>>

\* _pil_to_cv: cv2.cvtColor(np.array(pil_image), cv2.COLOR_RGB2BGR) raises
\* cv2.error on the two-dimensional array of a one-channel image
PilToCv(image) == IF image.mode = "RGB" THEN image ELSE Exception("cv2.error")

\* process_image has no try/except: the exception of _pil_to_cv leaves it
ProcessImage(image) ==
    LET cv_image == PilToCv(image)
    IN  IF IsException(cv_image) THEN cv_image
        ELSE SpecialItems(DetectStamps(cv_image))

-----------------------------------------------------------------------------
(* The state machine: one recognize_text call at a time *)

NoRequest == [image |-> NoImage, lang |-> None, use_cache |-> FALSE]

Texts == {<<" ">>, <<"a">>, <<"b", "b">>, <<"a", " ">>}

Confidences == {30, 85, 95}

\* the engine behaviours of the three specifications
Outcomes ==
    {Raises, Returns(<<"a", " ">>, "kor", 95), Returns(<<"b", "b">>, "", 30)}

ArbOutcomes ==
    {Raises} \cup {Returns(t, "kor", c) : t \in Texts, c \in Confidences}

LangOutcomes ==
    {Raises} \cup {Returns(<<"a">>, l, 95) : l \in {"", "jpn", "kor", "eng"}}

\* process_document_async is not running
NoDocument == [kind |-> None, pages |-> <<>>]

NoOptions == [language |-> None, use_cache |-> FALSE, check_orientation |-> FALSE]

WorkerIdle ==
    /\ wpc = "idle"
    /\ doc = NoDocument
    /\ options = NoOptions
    /\ language = None
    /\ page_results = <<>>
    /\ doc_info = EmptyDict
    /\ doc_result = EmptyDict
    /\ stages = <<>>

\* no function of orientation.py has been called
GeometryIdle ==
    /\ geometry_in = EmptyDict
    /\ geometry_out = EmptyDict

\* the state after OCREngine.__init__, with a Redis server that answers
EngineIdle ==
    /\ cache = EmptyDict
    /\ cache_up = TRUE
    /\ now = 0
    /\ pc = "idle"
    /\ req = NoRequest
    /\ special_items = EmptyDict
    /\ started = {}
    /\ outcomes = EmptyDict
    /\ tasks = EmptyDict
    /\ completed = <<>>
    /\ ensemble_result = EmptyDict
    /\ ret = EmptyDict

\* no FieldConfig has been made
ConfigIdle ==
    /\ fields = <<>>
    /\ config_file = <<>>
    /\ field_ret = EmptyDict

Idle ==
    /\ EngineIdle
    /\ WorkerIdle
    /\ GeometryIdle
    /\ ConfigIdle

Init ==
    /\ weights = FixtureWeights
    /\ cache_enabled \in BOOLEAN
    /\ Idle

\* recognize_text up to the await of gather: the cache check and the return
\* on a hit, then the detection of special items; an exception that reaches
\* recognize_text leaves it (pc = "raised", ret the exception)
RecognizeTextCall(image, lang, use_cache) ==
    /\ pc = "idle"
    /\ req' = [image |-> image, lang |-> lang, use_cache |-> use_cache]
    /\ LET cache_result ==
               IF use_cache /\ cache_enabled
               THEN CheckCache(cache, cache_enabled, image, lang, cache_up)
               ELSE EmptyDict
           detected == ProcessImage(image)
       IN  IF IsException(cache_result)
           THEN /\ ret' = cache_result
                /\ pc' = "raised"
                /\ special_items' = special_items
           ELSE IF cache_result # EmptyDict
           THEN /\ ret' = cache_result
                /\ pc' = "done"
                /\ special_items' = special_items
           ELSE IF IsException(detected)
           THEN /\ ret' = detected
                /\ pc' = "raised"
                /\ special_items' = special_items
           ELSE /\ ret' = ret
                /\ pc' = "running"
                /\ special_items' = detected
    /\ UNCHANGED <<weights, cache_enabled, cache, cache_up, now, started, outcomes,
                   tasks, completed, ensemble_result>>

\* recognize_text called on its own, as the tests call it
RecognizeText(image, lang, use_cache) ==
    /\ RecognizeTextCall(image, lang, use_cache)
    /\ UNCHANGED <<worker_vars, geometry_vars, config_vars>>

\* the task of engine e reaches engine.recognize; asyncio starts the tasks
\* of gather in the order they were created
EngineStart(e) ==
    /\ pc = "running"
    /\ e \in DOMAIN Engines
    /\ Engines[e] \notin started
    /\ \A j \in 1..(e - 1) : Engines[j] \in started
    /\ started' = started \cup {Engines[e]}
    /\ UNCHANGED <<weights, cache_enabled, cache, cache_up, now, pc, req, special_items,
                   outcomes, tasks, completed, ensemble_result, ret,
                   worker_vars, geometry_vars, config_vars>>

\* engine.recognize of a started engine returns or raises, and its task ends
EngineCompleteTask(name, outcome) ==
    /\ pc = "running"
    /\ name \in started
    /\ name \notin DOMAIN outcomes
    /\ name \notin DOMAIN tasks
    /\ outcomes' = SetKey(outcomes, name, outcome)
    /\ tasks' = SetKey(tasks, name, RunSingleEngine(outcome, req.lang))
    /\ UNCHANGED <<weights, cache_enabled, cache, cache_up, now, pc, req, special_items,
                   started, ensemble_result, ret, worker_vars, geometry_vars, config_vars>>

EngineComplete(name, outcome) ==
    /\ EngineCompleteTask(name, outcome)
    /\ UNCHANGED completed

\* the same step, with the order of completion written down
EngineCompleteObserved(name, outcome) ==
    /\ EngineCompleteTask(name, outcome)
    /\ completed' = Append(completed, name)

\* engine.recognize of a started engine never returns: nothing in
\* _run_single_engine or _run_ocr_engines bounds the await
EngineHang(name) ==
    /\ pc = "running"
    /\ name \in started
    /\ name \notin DOMAIN outcomes
    /\ outcomes' = SetKey(outcomes, name, Hangs)
    /\ UNCHANGED <<weights, cache_enabled, cache, cache_up, now, pc, req, special_items,
                   started, tasks, completed, ensemble_result, ret,
                   worker_vars, geometry_vars, config_vars>>

\* recognize_text from the return of gather to its own return
FanIn ==
    /\ pc = "running"
    /\ Joined(tasks)
    /\ LET engine_results == MapResults(tasks)
           ensemble == SetKey(EnsembleResults(engine_results, req.lang, weights),
                              "special_items", special_items)
           processed_result == Process(ensemble)
       IN  IF engine_results = <<>>
           THEN /\ ret' = [text |-> <<>>, language |-> LangOrDefault(req.lang),
                           confidence |-> Zero, special_items |-> special_items,
                           error |-> "no OCR engine result"]
                /\ UNCHANGED <<cache, ensemble_result>>
           ELSE /\ ensemble_result' = ensemble
                /\ ret' = processed_result
                /\ cache' = IF req.use_cache /\ cache_enabled
                            THEN SaveToCache(cache, cache_enabled, req.image, req.lang,
                                             processed_result, now, cache_up)
                            ELSE cache
    /\ pc' = "done"
    /\ UNCHANGED <<weights, cache_enabled, cache_up, now, req, special_items, started,
                   outcomes, tasks, completed, worker_vars, geometry_vars, config_vars>>

\* the caller takes the result or the exception; the next call starts afresh
Return ==
    /\ pc \in {"done", "raised"}
    /\ pc' = "idle"
    /\ req' = NoRequest
    /\ special_items' = EmptyDict
    /\ started' = {}
    /\ outcomes' = EmptyDict
    /\ tasks' = EmptyDict
    /\ completed' = <<>>
    /\ ensemble_result' = EmptyDict
    /\ ret' = EmptyDict
    /\ UNCHANGED <<weights, cache_enabled, cache, cache_up, now, worker_vars, geometry_vars, config_vars>>

\* time passes; the store drops the keys whose time to live has elapsed
Tick ==
    /\ now < MaxTime
    /\ now' = now + 1
    /\ cache' = [k \in {k \in DOMAIN cache : cache[k].expires > now + 1} |-> cache[k]]
    /\ UNCHANGED <<weights, cache_enabled, cache_up, pc, req, special_items, started,
                   outcomes, tasks, completed, ensemble_result, ret,
                   worker_vars, geometry_vars, config_vars>>

\* the Redis server stops answering, or answers again; it keeps its data
CacheFault ==
    /\ cache_up' = ~cache_up
    /\ UNCHANGED <<weights, cache_enabled, cache, now, pc, req, special_items, started,
                   outcomes, tasks, completed, ensemble_result, ret,
                   worker_vars, geometry_vars, config_vars>>

Next ==
    \/ \E image \in Images, lang \in LangHints, use_cache \in BOOLEAN :
          RecognizeText(image, lang, use_cache)
    \/ \E e \in DOMAIN Engines : EngineStart(e)
    \/ \E name \in EngineNames, outcome \in Outcomes : EngineComplete(name, outcome)
    \/ FanIn
    \/ Return
    \/ Tick

Spec == Init /\ [][Next]_vars

\* arbitration of texts and confidences under every weight configuration
InitArb ==
    /\ weights \in WeightConfigs
    /\ cache_enabled = FALSE
    /\ Idle

NextArb ==
    \/ \E image \in Images : RecognizeText(image, None, FALSE)
    \/ \E e \in DOMAIN Engines : EngineStart(e)
    \/ \E name \in EngineNames, outcome \in ArbOutcomes : EngineComplete(name, outcome)
    \/ FanIn

SpecArb == InitArb /\ [][NextArb]_vars

\* arbitration of the language
InitLang ==
    /\ weights = FixtureWeights
    /\ cache_enabled = FALSE
    /\ Idle

NextLang ==
    \/ \E image \in Images, lang \in LangHints : RecognizeText(image, lang, FALSE)
    \/ \E e \in DOMAIN Engines : EngineStart(e)
    \/ \E name \in EngineNames, outcome \in LangOutcomes : EngineComplete(name, outcome)
    \/ FanIn

SpecLang == InitLang /\ [][NextLang]_vars

\* a format_result that passes the confidence on as it is
FormatResultUnclamped(name, text, lang, confidence) ==
    [text |-> text, language |-> lang, confidence |-> confidence, engine |-> name]

\* BaseOCREngine.format_result without extra data, for a language code that
\* normalize_language_code leaves alone: min(1.0, max(0.0, confidence))
FormatResult(name, text, lang, confidence) ==
    [text |-> text, language |-> lang,
     confidence |-> IF confidence < 0 THEN 0 ELSE IF confidence > 100 THEN 100 ELSE confidence,
     engine |-> name]

\* an engine's recognize computes the confidence `reported` from what its
\* recognition library gives and returns format_result(text, lang, reported)
Recognized(name, text, lang, reported) ==
    [raises |-> FALSE, reported |-> reported,
     result |-> FormatResult(name, text, lang, reported)]

\* confidences as the libraries report them, in percent: the exponential of
\* a sequence score or an averaged word confidence can leave [0, 1]
ReportedConfidences == {-20, 50, 90, 150}

\* the engines built on BaseOCREngine, under every weight configuration
InitClamp ==
    /\ weights \in WeightConfigs
    /\ cache_enabled = FALSE
    /\ Idle

NextClamp ==
    \/ \E image \in Images : RecognizeText(image, None, FALSE)
    \/ \E e \in DOMAIN Engines : EngineStart(e)
    \/ \E name \in EngineNames :
           \/ EngineComplete(name, Raises)
           \/ \E reported \in ReportedConfidences :
                  EngineComplete(name, Recognized(name, <<"a">>, "kor", reported))
    \/ FanIn

SpecClamp == InitClamp /\ [][NextClamp]_vars

\* recognize_text against a Redis server that fails and recovers at any moment
FaultOutcomes == {Raises, Returns(<<"a", " ">>, "kor", 95)}

InitFault ==
    /\ weights = FixtureWeights
    /\ cache_enabled = TRUE
    /\ Idle

NextFault ==
    \/ \E image \in Images, use_cache \in BOOLEAN : RecognizeText(image, None, use_cache)
    \/ \E e \in DOMAIN Engines : EngineStart(e)
    \/ \E name \in EngineNames, outcome \in FaultOutcomes : EngineComplete(name, outcome)
    \/ FanIn
    \/ Return
    \/ CacheFault

SpecFault == InitFault /\ [][NextFault]_vars

\* recognize_text on images with and without stamps, with one and with three
\* channels, against a cache whose entries expire
ItemImages ==
    {Image("img1", "RGB", "none", FALSE), Image("img2", "RGB", "round stamp", FALSE),
     Image("img3", "RGB", "square stamp", FALSE), Image("img4", "L", "none", FALSE)}

InitItems ==
    /\ weights = FixtureWeights
    /\ cache_enabled = TRUE
    /\ Idle

NextItems ==
    \/ \E image \in ItemImages : RecognizeText(image, None, TRUE)
    \/ \E e \in DOMAIN Engines : EngineStart(e)
    \/ \E name \in EngineNames, outcome \in FaultOutcomes : EngineComplete(name, outcome)
    \/ FanIn
    \/ Return
    \/ Tick

SpecItems == InitItems /\ [][NextItems]_vars

\* recognize_text with engines that may never answer.  The event loop runs
\* every task that can run: a task is started, an engine that answers has its
\* task finished, and recognize_text resumes once gather is done
InitHang ==
    /\ weights = FixtureWeights
    /\ cache_enabled = FALSE
    /\ Idle

NextHang ==
    \/ \E image \in Images, lang \in LangHints : RecognizeText(image, lang, FALSE)
    \/ \E e \in DOMAIN Engines : EngineStart(e)
    \/ \E name \in EngineNames, outcome \in FaultOutcomes : EngineComplete(name, outcome)
    \/ \E name \in EngineNames : EngineHang(name)
    \/ FanIn
    \/ Return

SpecHang ==
    /\ InitHang
    /\ [][NextHang]_vars
    /\ WF_vars(\E e \in DOMAIN Engines : EngineStart(e))
    /\ \A name \in EngineNames :
          WF_vars(\E outcome \in FaultOutcomes : EngineComplete(name, outcome))
    /\ WF_vars(FanIn)

\* recognize_text with the order of completion observed; the engines
\* disagree on the language and report texts of the same length
OrderOutcomes ==
    {Raises, Returns(<<"a", " ">>, "kor", 30), Returns(<<"b", "b">>, "eng", 30)}

NextOrder ==
    \/ \E image \in Images, lang \in LangHints : RecognizeText(image, lang, FALSE)
    \/ \E e \in DOMAIN Engines : EngineStart(e)
    \/ \E name \in EngineNames, outcome \in OrderOutcomes :
          EngineCompleteObserved(name, outcome)
    \/ FanIn

SpecOrder == InitLang /\ [][NextOrder]_vars

-----------------------------------------------------------------------------
(* process_document_async (src/src/worker/tasks.py) with the functions it   *)
(* calls: PDFProcessor.convert_to_images, DocumentPreprocessor.process_     *)
(* document, OCREngine.recognize_text and PostProcessor.process.  The       *)
(* storage manager is taken to store the file; extract_entities is on and   *)
(* finds no entity in a text of letters and blanks, return_images and       *)
(* app.debug are off, their defaults; file_id, file_name, file_type and     *)
(* process_time are left out of the result.                                 *)

\* Preprocessor.process_image: the result of its pipeline is the one-channel
\* image Image.fromarray(processed) of the binarized array
Binarize(image) == Image(image.id, "L", image.marks, TRUE)

\* DocumentPreprocessor.process_document on a three-channel image without
\* handwriting, tables or strikethrough and higher than wide (the inferred
\* type is then "form"), doc_type being None as the worker calls it.  The local has_stamps is bound only when lang is "jpn": for any
\* other lang the call of _infer_document_type raises UnboundLocalError, and
\* the except clause puts the original image in processed_image.  When the
\* pipeline of process_image fails, process_image returns the original too
ProcessDocumentInfo(image, lang, pipeline_ok) ==
    LET result == [processed_image |-> IF pipeline_ok THEN Binarize(image) ELSE image,
                   language |-> lang,
                   doc_type |-> None,
                   has_handwriting |-> FALSE,
                   has_stamps |-> FALSE,
                   has_table |-> FALSE,
                   has_strikethrough |-> FALSE,
                   regions |-> <<>>]
    IN  IF lang = "jpn"
        THEN SetKey(SetKey(result, "has_stamps", image.marks # "none"), "doc_type", "form")
        ELSE SetKey(SetKey(result, "processed_image", image), "error", "UnboundLocalError")

\* PDFProcessor.convert_to_images: every page is rasterised and, when
\* check_orientation is set, detect_orientation is run on it and the page
\* turned; detected[i] is what detect_orientation returns for page i
ConvertToImages(pages, check_orientation, detected) ==
    [i \in DOMAIN pages |->
        [page_num |-> i, image |-> pages[i],
         orientation |-> IF check_orientation THEN detected[i] ELSE 0]]

\* the stages convert_to_images runs, page by page
OrientationStages(pages, check_orientation) ==
    IF check_orientation
    THEN [i \in DOMAIN pages |-> [page |-> i, stage |-> "orientation", lang |-> None]]
    ELSE <<>>

\* a / b + c / d
AddFrac(x, y) == Frac(x.n * y.d + y.n * x.d, x.d * y.d)

RECURSIVE SumConfidence(_)
SumConfidence(pages) ==
    IF pages = <<>> THEN Zero
    ELSE AddFrac(Head(pages).confidence, SumConfidence(Tail(pages)))

RECURSIVE JoinTexts(_)
JoinTexts(pages) ==
    IF pages = <<>> THEN <<>>
    ELSE IF Len(pages) = 1 THEN pages[1].text
    ELSE pages[1].text \o <<"\n", "\n">> \o JoinTexts(Tail(pages))

\* lines 229-258: the document's text, confidence and language
Finished(pages) ==
    IF pages = <<>> THEN [pages |-> pages]
    ELSE LET total == SumConfidence(pages)
         IN  [pages |-> pages,
              text |-> JoinTexts(pages),
              confidence |-> Frac(total.n, total.d * Len(pages)),
              language |-> pages[1].language,
              entities |-> EmptyDict]

\* lines 260-266: the dictionary returned for an exception
Failure(exception) == [error |-> exception.exception]

\* process_document_async from its call to the first page: the options are
\* read, and a PDF is converted to page images
ProcessDocument(file, opts, detected) ==
    /\ wpc = "idle"
    /\ pc = "idle"
    /\ doc' = file
    /\ options' = opts
    /\ language' = opts.language
    /\ UNCHANGED doc_info
    /\ IF file.kind = "pdf"
       THEN /\ page_results' = ConvertToImages(file.pages, opts.check_orientation, detected)
            /\ stages' = OrientationStages(file.pages, opts.check_orientation)
       ELSE /\ page_results' = <<[page_num |-> 1, image |-> file.pages[1], orientation |-> 0]>>
            /\ stages' = <<>>
    /\ IF file.pages = <<>>
       THEN /\ doc_result' = Failure(Exception("ValueError"))
            /\ wpc' = "returned"
       ELSE /\ doc_result' = [pages |-> <<>>]
            /\ wpc' = "pages"
    /\ UNCHANGED <<weights, cache_enabled, cache, cache_up, now, pc, req, special_items,
                   started, outcomes, tasks, completed, ensemble_result, ret,
                   geometry_vars, config_vars>>

\* one page, from the top of the loop to the await inside recognize_text:
\* the page is preprocessed and recognize_text is called on the processed image
PageBegin(pipeline_ok) ==
    /\ wpc = "pages"
    /\ page_results # <<>>
    /\ LET page == Head(page_results)
           info == ProcessDocumentInfo(page.image, language, pipeline_ok)
       IN  /\ doc_info' = info
           /\ RecognizeTextCall(info.processed_image, language, options.use_cache)
           /\ stages' = stages \o
                  <<[page |-> page.page_num, stage |-> "preprocess", lang |-> language],
                    [page |-> page.page_num, stage |-> "recognize", lang |-> language]>>
    /\ wpc' = "recognizing"
    /\ UNCHANGED <<doc, options, language, page_results, doc_result, geometry_vars, config_vars>>

\* the rest of the page once recognize_text has returned or raised: the
\* second normalisation, the language kept for the pages that follow, the
\* page entry; then the next page, or the end of the document
PageEnd ==
    /\ wpc = "recognizing"
    /\ pc \in {"done", "raised"}
    /\ LET page == Head(page_results)
           processed_result == Process(ret)
           detected_language ==
               IF language = None /\ "language" \in DOMAIN processed_result
               THEN processed_result["language"]
               ELSE language
           page_info == [page_num |-> page.page_num,
                         text |-> processed_result["text"],
                         language |-> processed_result["language"],
                         confidence |-> processed_result["confidence"],
                         orientation |-> page.orientation]
           analysed ==
               IF doc.kind = "pdf" THEN doc_info["has_special_items"]
               ELSE \/ doc_info["has_stamps"] \/ doc_info["has_handwriting"]
                    \/ doc_info["has_table"] \/ doc_info["has_strikethrough"]
           page_entry ==
               IF analysed
               THEN SetKey(page_info, "special_items",
                           [has_stamps |-> doc_info["has_stamps"],
                            has_handwriting |-> doc_info["has_handwriting"],
                            has_table |-> doc_info["has_table"],
                            has_strikethrough |-> doc_info["has_strikethrough"],
                            regions |-> doc_info["regions"]])
               ELSE page_info
           pages == Append(doc_result["pages"], page_entry)
       IN  IF pc = "raised"
           THEN /\ doc_result' = Failure(ret)
                /\ wpc' = "returned"
                /\ UNCHANGED <<language, page_results, stages>>
           ELSE /\ language' = detected_language
                /\ stages' = Append(stages, [page |-> page.page_num, stage |-> "normalise",
                                             lang |-> processed_result["language"]])
                /\ IF doc.kind = "pdf" /\ "has_special_items" \notin DOMAIN doc_info
                   THEN /\ doc_result' = Failure(Exception("KeyError"))
                        /\ wpc' = "returned"
                        /\ UNCHANGED page_results
                   ELSE /\ page_results' = Tail(page_results)
                        /\ IF Tail(page_results) = <<>>
                           THEN /\ doc_result' = Finished(pages)
                                /\ wpc' = "returned"
                           ELSE /\ doc_result' = [pages |-> pages]
                                /\ wpc' = "pages"
    /\ pc' = "idle"
    /\ req' = NoRequest
    /\ special_items' = EmptyDict
    /\ started' = {}
    /\ outcomes' = EmptyDict
    /\ tasks' = EmptyDict
    /\ completed' = <<>>
    /\ ensemble_result' = EmptyDict
    /\ ret' = EmptyDict
    /\ UNCHANGED <<weights, cache_enabled, cache, cache_up, now, doc, options, doc_info,
                   geometry_vars, config_vars>>

\* documents handed to the worker: a PDF of two pages, a PDF of one page
\* that bears a stamp, and an image file
Documents ==
    {[kind |-> "pdf", pages |-> <<Image("img1", "RGB", "none", FALSE),
                                  Image("img2", "RGB", "none", FALSE)>>],
     [kind |-> "pdf", pages |-> <<Image("img3", "RGB", "square stamp", FALSE)>>],
     [kind |-> "image", pages |-> <<Image("img1", "RGB", "none", FALSE)>>]}

\* options.get('language') and options.get('check_orientation', True)
WorkerOptions ==
    [language : {None, "jpn"}, use_cache : {FALSE}, check_orientation : BOOLEAN]

\* what detect_orientation may return inside convert_to_images
DetectedOrientations == {0, 90}

WorkerOutcomes ==
    {Raises, Returns(<<"a", " ">>, "kor", 95), Returns(<<"b">>, "jpn", 80)}

InitWorker ==
    /\ weights = FixtureWeights
    /\ cache_enabled = FALSE
    /\ Idle

NextWorker ==
    \/ \E file \in Documents, opts \in WorkerOptions :
          \E detected \in [DOMAIN file.pages -> DetectedOrientations] :
             ProcessDocument(file, opts, detected)
    \/ \E pipeline_ok \in BOOLEAN : PageBegin(pipeline_ok)
    \/ \E e \in DOMAIN Engines : EngineStart(e)
    \/ \E name \in EngineNames, outcome \in WorkerOutcomes :
          EngineComplete(name, outcome)
    \/ FanIn
    \/ PageEnd

SpecWorker == InitWorker /\ [][NextWorker]_vars

-----------------------------------------------------------------------------
(* detect_orientation (src/src/document/orientation.py).  What the function *)
(* takes from the image is the list of the angles cv2.minAreaRect gives for *)
(* the text-line blobs, here in half degrees, and whether one of the cv2    *)
(* calls raises.                                                            *)

MaxBlobs == 3

\* -90, -60, -45.5, -45, -12.5, 0, 7.5, 45, 85 and 90 degrees
BlobAngles == {-180, -120, -91, -90, -25, 0, 15, 90, 170, 180}

\* Python's round(angle / 5) for an angle in half degrees: to the nearest
\* integer, a tie to the even one
RoundFifth(angle) ==
    LET q == angle \div 10
        r == angle % 10
    IN  IF r < 5 THEN q
        ELSE IF r > 5 THEN q + 1
        ELSE IF q % 2 = 0 THEN q ELSE q + 1

\* the angle appended to angles: 90 is added to an angle under -45 degrees
LineAngle(angle) == IF angle < -90 THEN 180 + angle ELSE angle

\* bucket = round(angle / 5) * 5, in degrees
Bucket(angle) == RoundFifth(LineAngle(angle)) * 5

\* hist[bucket]
BucketCount(angles, bucket) ==
    Cardinality({i \in DOMAIN angles : Bucket(angles[i]) = bucket})

\* max(hist.items(), key=lambda x: x[1])[0]: the first bucket put in hist
\* among those counted most often
MostCommonBucket(angles) ==
    LET best == CHOOSE i \in DOMAIN angles :
                    /\ \A j \in DOMAIN angles :
                          BucketCount(angles, Bucket(angles[j])) <=
                              BucketCount(angles, Bucket(angles[i]))
                    /\ \A j \in 1..(i - 1) :
                          BucketCount(angles, Bucket(angles[j])) <
                              BucketCount(angles, Bucket(angles[i]))
    IN  Bucket(angles[best])

\* what a call ends with: the value it returns, or the exception it raises
Returned(value) == [returns |-> value]

\* the body of the try block
DetectOrientationTry(input) ==
    IF input.fails THEN Exception("cv2.error")
    ELSE IF input.angles = <<>> THEN Returned(0)
    ELSE LET most_common_bucket == MostCommonBucket(input.angles)
         IN  IF -10 <= most_common_bucket /\ most_common_bucket <= 10 THEN Returned(0)
             ELSE IF 40 <= most_common_bucket /\ most_common_bucket <= 50 THEN Returned(90)
             ELSE IF -50 <= most_common_bucket /\ most_common_bucket <= -40 THEN Returned(270)
             ELSE IF most_common_bucket >= 80 \/ most_common_bucket <= -80 THEN Returned(180)
             ELSE Returned(0)

\* detect_orientation without its except clause
DetectOrientationUncaught(input) == DetectOrientationTry(input)

\* detect_orientation: the except clause returns 0
DetectOrientation(input) ==
    IF IsException(DetectOrientationTry(input))
    THEN Returned(0)
    ELSE DetectOrientationTry(input)

\* the images detect_orientation is called on
OrientationInputs ==
    [fails : BOOLEAN,
     angles : UNION {[1..n -> BlobAngles] : n \in 0..MaxBlobs}]

\* one call of detect_orientation on the image at hand
DetectOrientationCall ==
    /\ geometry_out = EmptyDict
    /\ geometry_out' = DetectOrientation(geometry_in)
    /\ UNCHANGED <<weights, cache_enabled, cache, cache_up, now, pc, req, special_items,
                   started, outcomes, tasks, completed, ensemble_result, ret,
                   worker_vars, geometry_in, config_vars>>

InitOrientation ==
    /\ weights = FixtureWeights
    /\ cache_enabled = FALSE
    /\ EngineIdle
    /\ WorkerIdle
    /\ ConfigIdle
    /\ geometry_in \in OrientationInputs
    /\ geometry_out = EmptyDict

NextOrientation == DetectOrientationCall

SpecOrientation == InitOrientation /\ [][NextOrientation]_vars

-----------------------------------------------------------------------------
(* Single calls of the functions of src/src/document/orientation.py,        *)
(* Preprocessor.process_image, SpecialItemDetector._detect_stamps and       *)
(* PostProcessor.process.  geometry_in is the call, [call |-> the function, *)
(* and its arguments], geometry_out what it gave.                           *)

\* cv2.minAreaRect: the angle, in half degrees, it reports for a blob whose
\* sides run in the direction given (in half degrees) and at right angles to
\* it.  OpenCV before 4.5.1 reports the angle in [-90, 0), later versions
\* in (0, 90] degrees
MinAreaRectAngle(direction, opencv) ==
    IF opencv = "[-90, 0)" THEN (direction % 180) - 180
    ELSE IF direction % 180 = 0 THEN 180
    ELSE direction % 180

\* correct_orientation on a page turned clockwise by rotation degrees:
\* Image.ROTATE_270 turns it counter-clockwise by 270 degrees, ROTATE_180 by
\* 180 and ROTATE_90 by 90; any other angle leaves the page alone
CorrectOrientation(rotation, angle) ==
    IF angle = 90 THEN (rotation + 360 - 270) % 360
    ELSE IF angle = 180 THEN (rotation + 360 - 180) % 360
    ELSE IF angle = 270 THEN (rotation + 360 - 90) % 360
    ELSE rotation

\* convert_to_images, lines 124-128: detect_orientation on a page whose
\* text lines are tilted by tilts (half degrees) and which was turned
\* clockwise by rotation degrees, then correct_orientation
OrientPage ==
    /\ geometry_in.call = "detect_orientation"
    /\ geometry_out = EmptyDict
    /\ LET angles == [i \in DOMAIN geometry_in.tilts |->
                         MinAreaRectAngle(geometry_in.tilts[i] + 2 * geometry_in.rotation,
                                          geometry_in.opencv)]
           orientation == DetectOrientation([fails |-> FALSE, angles |-> angles])["returns"]
       IN  geometry_out' =
               [orientation |-> orientation,
                rotation |-> IF orientation # 0
                             THEN CorrectOrientation(geometry_in.rotation, orientation)
                             ELSE geometry_in.rotation]
    /\ UNCHANGED <<weights, cache_enabled, cache, cache_up, now, pc, req, special_items,
                   started, outcomes, tasks, completed, ensemble_result, ret,
                   worker_vars, geometry_in, config_vars>>

MaxLines == 2

\* detect_skew_angle, in the try block and the except clause.  What the
\* function takes from the image is the list of segments cv2.HoughLinesP
\* gives, each here by the angle atan2(y2 - y1, x2 - x1) in quarter degrees
\* (x2 - x1 is 0 exactly for 90 and -90 degrees), and whether a cv2 call
\* raises.  The value is in half degrees
DetectSkewAngle(input) ==
    LET Horizontal(angle) == angle # 360 /\ angle # -360
        \* lines 166-169
        Normalized(angle) ==
            IF angle < -180 THEN angle + 360
            ELSE IF angle > 180 THEN angle - 360
            ELSE angle
        \* round(angle * 2), a tie to the even integer
        Round(angle) ==
            IF angle % 2 = 0 THEN angle \div 2
            ELSE IF (angle \div 2) % 2 = 0 THEN angle \div 2
            ELSE (angle \div 2) + 1
        kept == SelectSeq(input.lines, Horizontal)
        buckets == [i \in DOMAIN kept |-> Round(Normalized(kept[i]))]
    IN  IF input.fails THEN Returned(0)
        ELSE IF input.lines = <<>> THEN Returned(0)
        ELSE IF kept = <<>> THEN Returned(0)
        ELSE Returned(MostFrequent(buckets))

\* one call of detect_skew_angle
DetectSkewAngleCall ==
    /\ geometry_in.call = "detect_skew_angle"
    /\ geometry_out = EmptyDict
    /\ geometry_out' = DetectSkewAngle(geometry_in)
    /\ UNCHANGED <<weights, cache_enabled, cache, cache_up, now, pc, req, special_items,
                   started, outcomes, tasks, completed, ensemble_result, ret,
                   worker_vars, geometry_in, config_vars>>

\* detect_document_bounds on an image of the given width and height whose
\* largest contour is the rectangle contour = <<x0, y0, x1, y1>> (<<>> when
\* no contour is found); polygonal says that approxPolyDP gives four points.
\* The bounds are lists of Python integers, or the floats of box.tolist()
DetectDocumentBounds(width, height, contour, polygonal) ==
    LET frame == <<<<0, 0>>, <<width, 0>>, <<width, height>>, <<0, height>>>>
        corners == <<<<contour[1], contour[2]>>, <<contour[3], contour[2]>>,
                     <<contour[3], contour[4]>>, <<contour[1], contour[4]>>>>
        area == (contour[3] - contour[1]) * (contour[4] - contour[2])
    IN  IF contour = <<>> THEN [points |-> frame, dtype |-> "int"]
        ELSE IF polygonal THEN [points |-> corners, dtype |-> "int"]
        ELSE IF 2 * area > width * height THEN [points |-> frame, dtype |-> "int"]
        ELSE [points |-> corners, dtype |-> "float64"]

\* crop_and_correct_document.  np.array(bounds) has the dtype of the list:
\* float64 for floats, and for Python integers the default integer of NumPy,
\* int64, or int32 on the platforms where that is the default;
\* cv2.contourArea takes int32 and float32 arrays only and raises cv2.error
\* for the others, which the except clause turns into the original image.
\* The value says whether the original image is returned, and its size
CropAndCorrectDocument(input) ==
    LET bounds == DetectDocumentBounds(input.width, input.height, input.contour,
                                       input.polygonal)
        p == bounds.points
        \* cv2.contourArea, twice the area
        shoelace == (p[1][1] * p[2][2] - p[2][1] * p[1][2]) + (p[2][1] * p[3][2] - p[3][1] * p[2][2])
                     + (p[3][1] * p[4][2] - p[4][1] * p[3][2]) + (p[4][1] * p[1][2] - p[1][1] * p[4][2])
        contour_area2 == IF shoelace < 0 THEN -shoelace ELSE shoelace
        image_area == input.width * input.height
        \* int(np.sqrt(dx ** 2 + dy ** 2))
        Side(a, b) == LET n == (a[1] - b[1]) * (a[1] - b[1]) + (a[2] - b[2]) * (a[2] - b[2])
                      IN  CHOOSE k \in 0..n : k * k <= n /\ n < (k + 1) * (k + 1)
        Max(a, b) == IF a >= b THEN a ELSE b
        original == [original |-> TRUE, size |-> <<input.width, input.height>>,
                     bounds |-> bounds, contour_area2 |-> contour_area2]
    IN  IF bounds.dtype = "float64" \/ (bounds.dtype = "int" /\ ~input.int32)
        THEN original
        ELSE IF 2 * contour_area2 > 3 * image_area
        THEN original
        ELSE [original |-> FALSE,
              size |-> <<Max(Side(p[2], p[1]), Side(p[3], p[4])),
                         Max(Side(p[4], p[1]), Side(p[3], p[2]))>>,
              bounds |-> bounds, contour_area2 |-> contour_area2]

\* one call of crop_and_correct_document
CropAndCorrectDocumentCall ==
    /\ geometry_in.call = "crop_and_correct_document"
    /\ geometry_out = EmptyDict
    /\ geometry_out' = CropAndCorrectDocument(geometry_in)
    /\ UNCHANGED <<weights, cache_enabled, cache, cache_up, now, pc, req, special_items,
                   started, outcomes, tasks, completed, ensemble_result, ret,
                   worker_vars, geometry_in, config_vars>>

\* a process_image that never resizes
ProcessImageSizeKept(input) == <<input.width, input.height>>

\* Preprocessor.process_image: the size of the image it returns.  An image
\* whose smaller side is under 600 pixels is scaled up first; the pipeline
\* keeps the size of what it is given, and when it fails the except clause
\* returns pil_image, which by then is the scaled image.  The sizes used
\* here make 600 / min_dim exact
ProcessImageSize(input) ==
    LET min_dim == IF input.width <= input.height THEN input.width ELSE input.height
    IN  IF min_dim < 600
        THEN <<(input.width * 600) \div min_dim, (input.height * 600) \div min_dim>>
        ELSE <<input.width, input.height>>

\* one call of Preprocessor.process_image
PreprocessorProcessImageCall ==
    /\ geometry_in.call = "process_image"
    /\ geometry_out = EmptyDict
    /\ geometry_out' = [size |-> ProcessImageSize(geometry_in),
                        binarized |-> geometry_in.pipeline_ok]
    /\ UNCHANGED <<weights, cache_enabled, cache, cache_up, now, pc, req, special_items,
                   started, outcomes, tasks, completed, ensemble_result, ret,
                   worker_vars, geometry_in, config_vars>>

\* the most red contours in an image handed to _detect_stamps
MaxContours == 2

\* _overlaps_with_existing_stamps(stamps, x, y, radius) with the radius given
\* doubled: distance < radius + sr, both sides squared and taken four times
OverlapsWithExistingStamps(stamps, x, y, radius2) ==
    \E i \in DOMAIN stamps :
       LET sx == stamps[i].position.x
           sy == stamps[i].position.y
           sr == stamps[i].radius
       IN  4 * ((x - sx) * (x - sx) + (y - sy) * (y - sy)) <
              (radius2 + 2 * sr) * (radius2 + 2 * sr)

\* the second loop of _detect_stamps over the red contours, each given by
\* its area and its bounding rectangle x, y, w, h.  The area lies between
\* pi * 30^2 * 0.8 and pi * 150^2 * 1.5, the rectangle is at most twice as
\* long as wide, and the overlap test is handed x and y, the top-left corner
\* of the rectangle, with the radius max(w, h) / 2
RECURSIVE DetectStampsInContours(_, _)
DetectStampsInContours(stamps, contours) ==
    IF contours = <<>> THEN stamps
    ELSE LET c == Head(contours)
             longer == IF c.w >= c.h THEN c.w ELSE c.h
             accepted ==
                 /\ 2262 <= c.area /\ c.area <= 106028
                 /\ c.h > 0 /\ c.h <= 2 * c.w /\ c.w <= 2 * c.h
                 /\ ~OverlapsWithExistingStamps(stamps, c.x, c.y, longer)
             stamp == [type |-> "stamp",
                       position |-> [x |-> (2 * c.x + c.w) \div 2,
                                     y |-> (2 * c.y + c.h) \div 2],
                       radius |-> longer \div 2,
                       is_red |-> PyBool(TRUE)]
         IN  DetectStampsInContours(IF accepted THEN Append(stamps, stamp) ELSE stamps,
                                    Tail(contours))

\* _detect_stamps on an image in which HoughCircles found the circles given
\* and findContours the red contours given
DetectStampsCall ==
    /\ geometry_in.call = "_detect_stamps"
    /\ geometry_out = EmptyDict
    /\ geometry_out' =
          [stamps |-> DetectStampsInContours(geometry_in.circles, geometry_in.contours)]
    /\ UNCHANGED <<weights, cache_enabled, cache, cache_up, now, pc, req, special_items,
                   started, outcomes, tasks, completed, ensemble_result, ret,
                   worker_vars, geometry_in, config_vars>>

\* the longest text handed to a single call of PostProcessor.process
MaxText == 5

\* postprocessor.process(r) and postprocessor.process(postprocessor.process(r))
\* for a result r of an engine
PostProcessorProcessCall ==
    /\ geometry_in.call = "process"
    /\ geometry_out = EmptyDict
    /\ LET ocr_result == [text |-> geometry_in.text, language |-> geometry_in.language]
       IN  geometry_out' = [once |-> Process(ocr_result),
                            twice |-> Process(Process(ocr_result))]
    /\ UNCHANGED <<weights, cache_enabled, cache, cache_up, now, pc, req, special_items,
                   started, outcomes, tasks, completed, ensemble_result, ret,
                   worker_vars, geometry_in, config_vars>>

InitCalls ==
    /\ weights = FixtureWeights
    /\ cache_enabled = FALSE
    /\ EngineIdle
    /\ WorkerIdle
    /\ ConfigIdle
    /\ geometry_out = EmptyDict
    /\ \/ geometry_in \in
             [call : {"detect_orientation"},
              tilts : UNION {[1..n -> {-4, 0, 4}] : n \in 1..2},
              rotation : {0, 90, 180, 270},
              opencv : {"[-90, 0)", "(0, 90]"}]
       \* segments at -135, -90, -45.25, -45, -44.75, 0, 0.75, 45, 45.25 and
       \* 135 degrees
       \/ geometry_in \in
             [call : {"detect_skew_angle"},
              fails : BOOLEAN,
              lines : UNION {[1..n -> {-540, -360, -181, -180, -179, 0, 3, 180, 181, 540}] :
                                n \in 0..MaxLines}]
       \* images of 4 by 4 pixels whose content covers from a quarter of the
       \* frame to the whole of it
       \/ geometry_in \in
             [call : {"crop_and_correct_document"},
              width : {4}, height : {4},
              contour : {<<>>} \cup {<<x0, 0, x1, y1>> : x0 \in {0, 1}, x1 \in {3, 4},
                                                     y1 \in {2, 3, 4}},
              polygonal : BOOLEAN,
              int32 : BOOLEAN]
       \/ geometry_in \in
             [call : {"process_image"},
              width : {100, 300, 600, 1200}, height : {100, 300, 600, 1200},
              pipeline_ok : BOOLEAN]
       \* texts of Hangul syllables, letters and blanks in each kind of
       \* language the post-processor tells apart
       \/ geometry_in \in
             [call : {"process"},
              language : {"jpn", "kor", "eng", "chi_sim"},
              text : UNION {[1..n -> {"ga", "na", "a", " "}] : n \in 0..MaxText}]
       \* no circle or one circle of radius 30 around (100, 100) that is not
       \* red, and red rectangles of 60 by 60, 150 by 60 and 60 by 20 pixels
       \* that do not touch each other
       \/ geometry_in \in
             [call : {"_detect_stamps"},
              circles : {<<>>, <<[type |-> "stamp", position |-> [x |-> 100, y |-> 100],
                                 radius |-> 30, is_red |-> NumpyBool(FALSE)]>>},
              contours :
                 {cs \in UNION {[1..n -> {[x |-> x, y |-> y, w |-> d[1], h |-> d[2],
                                           area |-> (d[1] - 1) * (d[2] - 1)] :
                                             x \in {40, 100, 130}, y \in {40, 100, 170},
                                             d \in {<<60, 60>>, <<150, 60>>, <<60, 20>>}}] :
                                   n \in 0..MaxContours} :
                     \A i, j \in DOMAIN cs :
                        i < j => \/ cs[i].x + cs[i].w < cs[j].x
                                 \/ cs[j].x + cs[j].w < cs[i].x
                                 \/ cs[i].y + cs[i].h < cs[j].y
                                 \/ cs[j].y + cs[j].h < cs[i].y}]

NextCalls ==
    \/ OrientPage
    \/ DetectSkewAngleCall
    \/ CropAndCorrectDocumentCall
    \/ PreprocessorProcessImageCall
    \/ PostProcessorProcessCall
    \/ DetectStampsCall

SpecCalls == InitCalls /\ [][NextCalls]_vars

-----------------------------------------------------------------------------
(* SpecialItemDetector._skeletonize (src/src/ocr/special_handlers.py).  A   *)
(* binary image is the set of its foreground pixels (value 255) on a grid   *)
(* of MaxSide columns and two rows.                                         *)

MaxSide == 3

Pixels == (1..MaxSide) \X (1..2)

\* the pixels under the 3 x 3 MORPH_CROSS kernel anchored at p that lie in
\* the image
Cross(p) ==
    {q \in Pixels : \/ q = p
                    \/ q[1] = p[1] /\ (q[2] = p[2] + 1 \/ q[2] = p[2] - 1)
                    \/ q[2] = p[2] /\ (q[1] = p[1] + 1 \/ q[1] = p[1] - 1)}

\* cv2.erode(img, kernel): the minimum under the kernel; with the default
\* border value the pixels outside the image never lower it
Erode(img) == {p \in Pixels : Cross(p) \subseteq img}

\* cv2.dilate(img, kernel): the maximum under the kernel; the pixels outside
\* the image never raise it
Dilate(img) == {p \in Pixels : Cross(p) \cap img # {}}

\* _skeletonize(binary_image) up to its loop
SkeletonizeCall ==
    /\ geometry_in.call = "_skeletonize"
    /\ geometry_out = EmptyDict
    /\ geometry_out' = [at |-> "erode", temp_img |-> geometry_in.binary_image,
                        eroded |-> {}, skeleton |-> {}]
    /\ UNCHANGED <<weights, cache_enabled, cache, cache_up, now, pc, req, special_items,
                   started, outcomes, tasks, completed, ensemble_result, ret,
                   worker_vars, geometry_in, config_vars>>

\* the first half of the loop body: eroded, dilated, temp, and the skeleton
\* grown by temp = temp_img - dilated
SkeletonizeErode ==
    /\ geometry_out # EmptyDict
    /\ geometry_in.call = "_skeletonize"
    /\ geometry_out.at = "erode"
    /\ LET eroded == Erode(geometry_out.temp_img)
           dilated == Dilate(eroded)
           temp == geometry_out.temp_img \ dilated
       IN  geometry_out' = [geometry_out EXCEPT !.at = "test",
                                                !.eroded = eroded,
                                                !.skeleton = @ \cup temp]
    /\ UNCHANGED <<weights, cache_enabled, cache, cache_up, now, pc, req, special_items,
                   started, outcomes, tasks, completed, ensemble_result, ret,
                   worker_vars, geometry_in, config_vars>>

\* the second half: temp_img = eroded.copy(), and the break when
\* cv2.countNonZero(temp_img) == 0
SkeletonizeTest ==
    /\ geometry_out # EmptyDict
    /\ geometry_in.call = "_skeletonize"
    /\ geometry_out.at = "test"
    /\ geometry_out' = [geometry_out EXCEPT
                           !.at = IF geometry_out.eroded = {} THEN "returned" ELSE "erode",
                           !.temp_img = geometry_out.eroded]
    /\ UNCHANGED <<weights, cache_enabled, cache, cache_up, now, pc, req, special_items,
                   started, outcomes, tasks, completed, ensemble_result, ret,
                   worker_vars, geometry_in, config_vars>>

\* every binary image of the grid
InitSkeleton ==
    /\ weights = FixtureWeights
    /\ cache_enabled = FALSE
    /\ EngineIdle
    /\ WorkerIdle
    /\ ConfigIdle
    /\ geometry_out = EmptyDict
    /\ geometry_in \in [call : {"_skeletonize"}, binary_image : SUBSET Pixels]

NextSkeleton ==
    \/ SkeletonizeCall
    \/ SkeletonizeErode
    \/ SkeletonizeTest

\* the function runs on: no step of it waits for anything
SpecSkeleton ==
    /\ InitSkeleton
    /\ [][NextSkeleton]_vars
    /\ WF_vars(NextSkeleton)

-----------------------------------------------------------------------------
(* FieldConfig (src/src/extraction/field_config.py) *)

\* a cap on the length of the field list
MaxFields == 4

FieldNames == {"field1", "field2", "field3"}

Field(name, type) == [name |-> name, type |-> type]

\* the dictionaries handed to add_field and update_field, those without a
\* 'name' key included
FieldArguments ==
    {Field(n, t) : n \in FieldNames, t \in {"text", "date"}} \cup {[type |-> "text"]}

\* no field of the list
NameNeverExists(fs, name) == FALSE

\* some field of the list fs has the name
NameExists(fs, name) == \E i \in DOMAIN fs : fs[i]["name"] = name

\* what a call leaves behind: when it has changed the list, _save_fields
\* rewrites the file from it
FieldCallEnds(call, field_name, field, new_fields, value, changed) ==
    /\ fields' = new_fields
    /\ config_file' = IF changed THEN new_fields ELSE config_file
    /\ field_ret' = [call |-> call, field_name |-> field_name, field |-> field,
                     ret |-> value]
    /\ UNCHANGED <<weights, cache_enabled, cache, cache_up, now, pc, req, special_items,
                   started, outcomes, tasks, completed, ensemble_result, ret,
                   worker_vars, geometry_vars>>

\* FieldConfig.add_field(field)
AddField(field) ==
    /\ Len(fields) < MaxFields
    /\ LET added == "name" \in DOMAIN field /\ ~NameExists(fields, field["name"])
       IN  FieldCallEnds("add_field", None, field,
                         IF added THEN Append(fields, field) ELSE fields,
                         Returned(added), added)

\* FieldConfig.update_field(field_name, updated_field): the first field with
\* the name is replaced, unless another field has the new name; without a
\* 'name' key updated_field['name'] raises KeyError
UpdateField(field_name, updated_field) ==
    LET found == {i \in DOMAIN fields : fields[i]["name"] = field_name}
        i == CHOOSE k \in found : \A j \in found : k <= j
        replaced == [fields EXCEPT ![i] = updated_field]
    IN  IF found = {}
        THEN FieldCallEnds("update_field", field_name, updated_field, fields,
                           Returned(FALSE), FALSE)
        ELSE IF Get(updated_field, "name", None) = field_name
        THEN FieldCallEnds("update_field", field_name, updated_field, replaced,
                           Returned(TRUE), TRUE)
        ELSE IF "name" \notin DOMAIN updated_field
        THEN FieldCallEnds("update_field", field_name, updated_field, fields,
                           Exception("KeyError"), FALSE)
        ELSE IF NameExists(SelectSeq(fields, LAMBDA other_field : other_field # fields[i]),
                           updated_field["name"])
        THEN FieldCallEnds("update_field", field_name, updated_field, fields,
                           Returned(FALSE), FALSE)
        ELSE FieldCallEnds("update_field", field_name, updated_field, replaced,
                           Returned(TRUE), TRUE)

\* FieldConfig.delete_field(field_name)
DeleteField(field_name) ==
    LET kept == SelectSeq(fields, LAMBDA field : field["name"] # field_name)
        deleted == Len(kept) < Len(fields)
    IN  FieldCallEnds("delete_field", field_name, EmptyDict, kept,
                      Returned(deleted), deleted)

\* a FieldConfig loaded from a file that holds no field or the two fields of
\* the tests
InitConfig ==
    /\ weights = FixtureWeights
    /\ cache_enabled = FALSE
    /\ EngineIdle
    /\ WorkerIdle
    /\ GeometryIdle
    /\ fields \in {<<>>, <<Field("field1", "text"), Field("field2", "date")>>}
    /\ config_file = fields
    /\ field_ret = EmptyDict

NextConfig ==
    \/ \E field \in FieldArguments : AddField(field)
    \/ \E field_name \in FieldNames, updated_field \in FieldArguments :
           UpdateField(field_name, updated_field)
    \/ \E field_name \in FieldNames : DeleteField(field_name)

SpecConfig == InitConfig /\ [][NextConfig]_vars

-----------------------------------------------------------------------------
(* Properties *)

\* the call ran the engines and has returned
Ran == pc = "done" /\ started # {}

\* the result of engine e as it enters arbitration
TextOf(e) == tasks[e]["text"]
LangOf(e) == tasks[e]["language"]
ConfOf(e) == tasks[e]["confidence"]
WeightOf(e) == Get(weights, e, 0)
ScoreOf(e) == ConfOf(e) * WeightOf(e)
NonBlank(e) == \E i \in DOMAIN TextOf(e) : TextOf(e)[i] # " "
Clears(e) == ConfOf(e) >= confidence_threshold
Failed(e) == outcomes[e].raises

SumOver(f) == SumSeq([i \in DOMAIN Engines |-> f[Engines[i]]])
SumW == SumOver([e \in EngineNames |-> WeightOf(e)])
SumC == SumOver([e \in EngineNames |-> ConfOf(e)])
SumCW == SumOver([e \in EngineNames |-> ScoreOf(e)])

\* the fraction c is num / den
IsQuotient(c, num, den) == c.n * den = c.d * num

\* C1: if an engine's recognize raises, every other configured engine is
\* still invoked, its result is among the results handed to arbitration, and
\* recognize_text returns a result.
C1_FailureIsolated ==
    (pc = "done" /\ started # {} /\ \E e \in DOMAIN outcomes : Failed(e)) =>
        /\ "text" \in DOMAIN ret
        /\ "engine_results" \in DOMAIN ensemble_result
        /\ \A f \in EngineNames :
              /\ f \in started
              /\ f \in DOMAIN outcomes
              /\ ~Failed(f) =>
                    \E i \in DOMAIN ensemble_result["engine_results"] :
                        ensemble_result["engine_results"][i] =
                            [name |-> f, result |-> outcomes[f].result]

C1_Witness ==
    /\ Ran
    /\ Failed("engine1")
    /\ ~Failed("engine2")
    /\ ~Failed("engine3")
    /\ ret["text"] = <<"a">>

\* C2: whenever at least one engine returned a non-blank text, the text of
\* the returned result is not empty, whatever the non-negative weights.
C2_NeverDropsUsable ==
    (Ran /\ \E e \in EngineNames : ~Failed(e) /\ NonBlank(e)) => ret["text"] # <<>>

\* C3: if every engine fails, the returned result has an empty text, the
\* confidence 0.0 and an 'error' entry.
C3_AllFailedIsExplicitError ==
    (Ran /\ \A e \in EngineNames : Failed(e)) =>
        /\ ret["text"] = <<>>
        /\ ret["confidence"] = [n |-> 0, d |-> 1]
        /\ "error" \in DOMAIN ret

AllWeightsPositive == \A e \in EngineNames : e \in DOMAIN weights /\ weights[e] > 0

\* C4 as stated: with positive weights and a non-blank engine at or above the
\* threshold, the arbitrated text is the text of an engine at or above the
\* threshold whose confidence x weight is maximal among all engines at or
\* above the threshold.
C4_Original ==
    (Ran /\ AllWeightsPositive /\ \E e \in EngineNames : NonBlank(e) /\ Clears(e)) =>
        \E e \in EngineNames :
            /\ Clears(e)
            /\ \A f \in EngineNames : Clears(f) => ScoreOf(f) <= ScoreOf(e)
            /\ ensemble_result["text"] = TextOf(e)

\* C4 as amended: with positive weights and a non-blank engine at or above
\* the threshold, the arbitrated text is the text of a non-blank engine at or
\* above the threshold whose confidence x weight is maximal among the
\* non-blank engines at or above the threshold; an engine below the
\* threshold never wins.
C4_BestScoreAmongNonBlank ==
    (Ran /\ AllWeightsPositive /\ \E e \in EngineNames : NonBlank(e) /\ Clears(e)) =>
        \E e \in EngineNames :
            /\ NonBlank(e) /\ Clears(e)
            /\ \A f \in EngineNames : NonBlank(f) /\ Clears(f) => ScoreOf(f) <= ScoreOf(e)
            /\ ensemble_result["text"] = TextOf(e)

\* the weight decides against the higher confidence, and an engine below the
\* threshold carries the largest weight
C4_Witness ==
    /\ Ran /\ AllWeightsPositive
    /\ \E e, f, g \in EngineNames :
          /\ NonBlank(e) /\ Clears(e) /\ NonBlank(f) /\ Clears(f)
          /\ ConfOf(e) < ConfOf(f) /\ ScoreOf(e) > ScoreOf(f)
          /\ TextOf(e) # TextOf(f)
          /\ NonBlank(g) /\ ~Clears(g) /\ WeightOf(g) >= WeightOf(e)
          /\ TextOf(g) # TextOf(e)
          /\ ensemble_result["text"] = TextOf(e)

\* C5: when no engine reaches the threshold, the arbitrated text is the text
\* of the first engine, in configuration order, among those whose non-blank
\* text has the maximal number of characters.
C5_LongestTextFirstWins ==
    (Ran /\ (\A e \in EngineNames : ~Clears(e)) /\ \E e \in EngineNames : NonBlank(e)) =>
        \E i \in DOMAIN Engines :
            /\ NonBlank(Engines[i])
            /\ \A j \in DOMAIN Engines :
                  NonBlank(Engines[j]) => Len(TextOf(Engines[j])) <= Len(TextOf(Engines[i]))
            /\ \A j \in 1..(i - 1) :
                  NonBlank(Engines[j]) => Len(TextOf(Engines[j])) < Len(TextOf(Engines[i]))
            /\ ensemble_result["text"] = TextOf(Engines[i])

\* two different texts of the same maximal length, and a shorter one before them
C5_Witness ==
    /\ Ran
    /\ \A e \in EngineNames : ~Clears(e)
    /\ TextOf("engine1") = <<"a">>
    /\ TextOf("engine2") = <<"a", " ">>
    /\ TextOf("engine3") = <<"b", "b">>
    /\ ensemble_result["text"] = <<"a", " ">>

CountOf(l) == Cardinality({e \in EngineNames : LangOf(e) = l})

SucceededTasks == [e \in {e \in DOMAIN tasks : ~Failed(e)} |-> tasks[e]]

\* C8: when some engines fail and at least one succeeds, the returned
\* language, text and confidence are those arbitrated from the succeeding
\* engines alone.
C8_FailedEngineExcluded ==
    (Ran /\ (\E e \in EngineNames : Failed(e)) /\ \E e \in EngineNames : ~Failed(e)) =>
        LET alone == Process(EnsembleResults(MapResults(SucceededTasks), req.lang, weights))
        IN  /\ ret["language"] = alone["language"]
            /\ ret["text"] = alone["text"]
            /\ ret["confidence"] = alone["confidence"]

\* C9: a call with caching enabled whose key is in the cache returns the
\* stored entry at once, and neither an engine is invoked nor the cache
\* written for it.
C9_CacheHitSkipsEngines ==
    [][ /\ (/\ pc = "idle" /\ pc' # "idle"
            /\ req'.use_cache /\ cache_enabled
            /\ CacheKey(req'.image, req'.lang) \in DOMAIN cache) =>
               /\ pc' = "done"
               /\ ret' = cache[CacheKey(req'.image, req'.lang)].data.json
               /\ started' = {}
               /\ cache' = cache
        /\ (pc = "done" /\ started = {}) =>
               /\ started' = {}
               /\ \A k \in DOMAIN cache' : k \in DOMAIN cache /\ cache'[k] = cache[k]
      ]_vars

C9_Witness ==
    /\ pc = "done"
    /\ started = {}
    /\ req.use_cache
    /\ ret["text"] = <<"a">>
    /\ CacheKey(req.image, req.lang) \in DOMAIN cache

\* C10: a call in which every engine failed does not write to the cache.
C10_NoCacheWriteOnTotalFailure ==
    [][ (pc = "running" /\ pc' = "done" /\ \A e \in EngineNames : Failed(e)) =>
            cache' = cache ]_vars

\* what recognize_text returns for the finished tasks when it does not use
\* the cache
Uncached ==
    Process(SetKey(EnsembleResults(MapResults(tasks), req.lang, weights),
                   "special_items", special_items))

\* C11: a call made while the cache fails runs the engines as on a miss, a
\* call that ends while the cache fails returns what it returns without the
\* cache and leaves the store as it was, and no call raises.
C11_CacheFailureIsMiss ==
    [][ /\ (pc = "idle" /\ pc' # "idle" /\ ~cache_up) => pc' = "running"
        /\ (pc = "running" /\ pc' # "running" /\ ~cache_up) =>
               /\ pc' = "done"
               /\ ret' = Uncached
               /\ cache' = cache
        /\ pc' # "raised"
      ]_vars

\* the entry of an earlier call is in the store, the read of it failed so
\* that the engines ran, and the write of the new result failed too
C11_Witness ==
    /\ pc = "done"
    /\ started # {}
    /\ req.use_cache
    /\ ~cache_up
    /\ CacheKey(req.image, req.lang) \in DOMAIN cache
    /\ ret["text"] = <<"a">>
    /\ cache[CacheKey(req.image, req.lang)].data.json["text"] = <<>>

\* C12: a cache-enabled call that succeeds stores its result without the
\* per-engine breakdown for cache_ttl ticks; an identical call made while the
\* entry lives returns the stored result, the entry is dropped when cache_ttl
\* has elapsed, and an identical call made after that runs the engines again.
C12_CacheRoundTrip ==
    [][ LET key == CacheKey(req'.image, req'.lang)
        IN  /\ (pc = "running" /\ pc' = "done" /\ req.use_cache /\ cache_enabled) =>
                   /\ key \in DOMAIN cache'
                   /\ cache'[key].expires = now + cache_ttl
                   /\ cache'[key].data.json = DelKey(ret', "engine_results")
            /\ (pc = "idle" /\ pc' # "idle" /\ req'.use_cache /\ cache_enabled
                    /\ key \in DOMAIN cache) =>
                   /\ pc' = "done"
                   /\ ret' = cache[key].data.json
                   /\ "engine_results" \notin DOMAIN ret'
            /\ (now' = now + 1) =>
                   \A k \in DOMAIN cache : k \in DOMAIN cache' <=> cache[k].expires > now'
            /\ (pc = "idle" /\ pc' # "idle" /\ req'.image.mode = "RGB"
                    /\ key \notin DOMAIN cache) =>
                   pc' = "running"
      ]_vars

\* C13: every call of recognize_text that runs the engines returns, also
\* when an engine never answers.
C13_AlwaysReturns == (pc = "running") ~> (pc = "done")

\* the outputs of the engines, listed in configuration order
OutputsInConfigurationOrder ==
    [i \in DOMAIN Engines |->
        [name |-> Engines[i],
         result |-> IF outcomes[Engines[i]].raises
                    THEN [text |-> <<>>,
                          language |-> IF req.lang = None THEN "jpn" ELSE req.lang,
                          confidence |-> 0, error |-> "exception"]
                    ELSE outcomes[Engines[i]].result]]

\* C14: the returned text, language and confidence are those arbitrated from
\* the engines' outputs taken in configuration order, in whatever order the
\* engine tasks finished.
C14_OrderIndependent ==
    Ran =>
        LET fixed == Process(EnsembleResults(OutputsInConfigurationOrder, req.lang, weights))
        IN  /\ ret["text"] = fixed["text"]
            /\ ret["language"] = fixed["language"]
            /\ ret["confidence"] = fixed["confidence"]

\* the tasks finished in the reverse of the configuration order, the first
\* and the last engine report different texts of the same length, and every
\* language has one vote
C14_Witness ==
    /\ Ran
    /\ completed = <<"engine3", "engine2", "engine1">>
    /\ TextOf("engine1") = <<"a", " ">>
    /\ Failed("engine2")
    /\ TextOf("engine3") = <<"b", "b">>
    /\ req.lang = None
    /\ ret["text"] = <<"a">>
    /\ ret["language"] = "kor"

\* C15, for the calls in which no engine fails: when the caller names a
\* language and an engine reports a result in it, the returned language is
\* the named one and the returned text is the text of an engine that
\* reported that language.
C15_SpecifiedLanguageWins ==
    (Ran /\ req.lang # None /\ (\A e \in EngineNames : ~Failed(e))
         /\ \E e \in EngineNames : LangOf(e) = req.lang) =>
        /\ ret["language"] = req.lang
        /\ \E e \in EngineNames :
               /\ LangOf(e) = req.lang
               /\ ret["text"] = StripEnds(TextOf(e))

\* C17: no exception of the detection of special items reaches the caller of
\* recognize_text: a call whose detection fails still runs the engines and
\* returns their arbitrated result.
C17_DetectionFailureContained ==
    [][ (pc = "idle" /\ pc' # "idle" /\ IsException(ProcessImage(req'.image))) =>
            /\ pc' # "raised"
            /\ ~IsException(ret')
      ]_vars

\* in the log of stages, before position last, the stage first of the page
\* precedes its stage second
StageBefore(page, first, second, last) ==
    \E i \in 1..(last - 1), j \in 1..(last - 1) :
        /\ i < j
        /\ stages[i].page = page /\ stages[i].stage = first
        /\ stages[j].page = page /\ stages[j].stage = second

\* C16: for every page the stages run in the order orientation correction,
\* skew correction, bounds/perspective correction, preprocessing, ensemble
\* recognition, text normalisation: when the preprocessing of a page starts
\* the three geometry stages of that page have been attempted in this order,
\* recognition follows preprocessing and normalisation follows recognition
C16_StagesInOrder ==
    \A k \in DOMAIN stages :
        /\ stages[k].stage = "preprocess" =>
              /\ StageBefore(stages[k].page, "orientation", "skew", k)
              /\ StageBefore(stages[k].page, "skew", "bounds", k)
        /\ stages[k].stage = "recognize" =>
              \E i \in 1..(k - 1) :
                  stages[i].page = stages[k].page /\ stages[i].stage = "preprocess"
        /\ stages[k].stage = "normalise" =>
              \E i \in 1..(k - 1) :
                  stages[i].page = stages[k].page /\ stages[i].stage = "recognize"

\* C18: special-region detection always operates on the original page image:
\* whenever recognize_text has run the detector on the image it was given
\* (no cache is configured, so it does in every call), that image is not the
\* binarized output of the preprocessing pipeline
C18_DetectorSeesOriginal ==
    (wpc = "recognizing" /\ pc \in {"running", "raised"}) => ~req.image.binarized

C20_OrientationCanonical ==
    geometry_out # EmptyDict =>
        /\ "returns" \in DOMAIN geometry_out
        /\ geometry_out["returns"] \in {0, 90, 180, 270}
        /\ (geometry_in.fails \/ geometry_in.angles = <<>>) =>
              geometry_out["returns"] = 0

\* a call in which an internal step raised, and the answer was 0
C20_Witness ==
    /\ geometry_in.fails
    /\ geometry_in.angles # <<>>
    /\ geometry_out = Returned(0)

\* C21: for each of the four canonical rotations of the same upright page,
\* detect_orientation reports the member of {0, 90, 180, 270} with which
\* correct_orientation yields the upright page
C21_RotationsCorrected ==
    (geometry_in.call = "detect_orientation" /\ geometry_out # EmptyDict) =>
        geometry_out.rotation = 0

\* C22: detect_skew_angle returns an angle in the half-open interval
\* (-45, 45] degrees for every list of detected segments, and 0 when no
\* segment is found
C22_SkewInRange ==
    (geometry_in.call = "detect_skew_angle" /\ geometry_out # EmptyDict) =>
        /\ -90 < geometry_out["returns"] /\ geometry_out["returns"] <= 90
        /\ geometry_in.lines = <<>> => geometry_out["returns"] = 0

\* C23: crop_and_correct_document returns the original image unmodified
\* whenever the detected content quadrilateral covers at least 75% of the
\* frame area, exactly 75% and the full frame included; a corrected crop is
\* produced only when the coverage is below 75%
C23_CropBelowThreeQuarters ==
    (geometry_in.call = "crop_and_correct_document" /\ geometry_out # EmptyDict) =>
        LET covered == 2 * geometry_out.contour_area2 >=
                           3 * geometry_in.width * geometry_in.height
        IN  /\ covered => geometry_out.original
            /\ ~geometry_out.original => ~covered

C24_ProcessIdempotent ==
    (geometry_in.call = "process" /\ geometry_out # EmptyDict) =>
        geometry_out.twice = geometry_out.once

\* C25: whatever confidences the engines report, values outside [0, 1]
\* included, the confidence of every engine result handed to the ensemble and
\* the confidence in the result the ensemble returns lie in [0, 1]
C25_ConfidenceClamped ==
    /\ \A e \in DOMAIN tasks : 0 <= tasks[e]["confidence"] /\ tasks[e]["confidence"] <= 100
    /\ (pc = "done" /\ "confidence" \in DOMAIN ret) =>
           /\ 0 <= ret["confidence"].n
           /\ ret["confidence"].n <= 100 * ret["confidence"].d

\* one engine reported 1.5, another -0.2, and the ensemble returned a
\* positive confidence
C25_Witness ==
    /\ pc = "done"
    /\ \E e \in DOMAIN outcomes : ~outcomes[e].raises /\ outcomes[e].reported > 100
    /\ \E e \in DOMAIN outcomes : ~outcomes[e].raises /\ outcomes[e].reported < 0
    /\ "confidence" \in DOMAIN ret
    /\ ret["confidence"].n > 0

\* the names of the fields of the list, in order
FieldNamesOf(fs) == [i \in DOMAIN fs |-> fs[i]["name"]]

\* C27: starting from a field list with unique names, every sequence of
\* add_field, update_field and delete_field calls keeps the names unique;
\* add_field with a name already in the list, and update_field or
\* delete_field with a name not in it, return False and leave the list as
\* it was
C27_NamesStayUnique ==
    /\ [](\A i, j \in DOMAIN fields :
            FieldNamesOf(fields)[i] = FieldNamesOf(fields)[j] => i = j)
    /\ [][LET call == field_ret'
              present(name) == \E i \in DOMAIN fields : FieldNamesOf(fields)[i] = name
              refused == call.ret = Returned(FALSE) /\ fields' = fields
          IN  /\ (call.call = "add_field" /\ "name" \in DOMAIN call.field
                    /\ present(call.field["name"])) => refused
              /\ (call.call \in {"update_field", "delete_field"}
                    /\ ~present(call.field_name)) => refused]_vars

\* with all three names in the list, add_field with one of them returned
\* False
C27_Witness ==
    /\ Len(fields) = 3
    /\ field_ret # EmptyDict
    /\ field_ret.call = "add_field"
    /\ "name" \in DOMAIN field_ret.field
    /\ field_ret.ret = Returned(FALSE)

\* C28: when a page of a PDF has been preprocessed without error and
\* recognize_text has ended on it without any engine raising, the step that
\* ends the page appends the page's entry to the result, which carries no
\* top-level 'error'
C28_PdfPagesReturned ==
    [][(/\ wpc = "recognizing"
        /\ pc \in {"done", "raised"}
        /\ doc.kind = "pdf"
        /\ "error" \notin DOMAIN doc_info
        /\ doc_info["processed_image"].binarized
        /\ \A e \in DOMAIN tasks : "error" \notin DOMAIN tasks[e])
       => (/\ "error" \notin DOMAIN doc_result'
           /\ Len(doc_result'["pages"]) = Len(doc_result["pages"]) + 1)]_vars

\* C29: a stamp candidate taken from a red contour is discarded exactly when
\* its centre is closer to the centre of a stamp accepted before it than the
\* sum of the two radii: no stamp of the returned list that comes from a
\* contour overlaps a stamp before it, and a single candidate of stamp size
\* and shape that overlaps no circle is in the list
C29_DuplicateStampsDiscarded ==
    (geometry_in.call = "_detect_stamps" /\ geometry_out # EmptyDict) =>
        LET found == geometry_out.stamps
            circles == geometry_in.circles
            contours == geometry_in.contours
            Close(s, t) ==
                (s.position.x - t.position.x) * (s.position.x - t.position.x)
                   + (s.position.y - t.position.y) * (s.position.y - t.position.y)
                < (s.radius + t.radius) * (s.radius + t.radius)
        IN  /\ \A i, j \in DOMAIN found :
                  (i < j /\ j > Len(circles)) => ~Close(found[i], found[j])
            /\ (Len(contours) = 1 /\ contours[1].w = 60 /\ contours[1].h = 60) =>
                  LET candidate == [position |-> [x |-> contours[1].x + 30,
                                                  y |-> contours[1].y + 30],
                                    radius |-> 30]
                  IN  (Len(found) = Len(circles)) <=>
                         \E i \in DOMAIN circles : Close(circles[i], candidate)

\* C30: _skeletonize terminates for every binary image, the image whose
\* pixels are all foreground and the image without foreground included
C30_SkeletonizeTerminates ==
    <>(geometry_out # EmptyDict /\ geometry_out.at = "returned")

=============================================================================
